---- MODULE Spec2Model ----
(***************************************************************************)
(* Model of the storefront backend (src/main.py, src/schemas.py): the      *)
(* public read endpoints, the order intake with its background email       *)
(* dispatch, and the admin endpoints guarded by the shared token.          *)
(*                                                                         *)
(* Python values are modelled as follows.                                  *)
(*   Optional[str]   None is <<>>, a string s is <<s>>                     *)
(*   pydantic model  a record with the model's fields                      *)
(*   Mongo document  a record with the field _id and the model's fields    *)
(*   collection      the sequence of its documents in natural order        *)
(*   ObjectId        a positive integer; its 24-hex string form is the     *)
(*                   record [hex |-> TRUE, n |-> the integer]; any other   *)
(*                   string is a record with hex |-> FALSE                 *)
(*                                                                         *)
(* A handler that makes one store call is one action. create_ink_order and *)
(* admin_upsert_business make two store calls, and other requests run      *)
(* between them: they are one action per store call, and the requests in   *)
(* progress are kept in reqs and upserts. The email task of an order runs  *)
(* after the response of the order: one action up to the call of           *)
(* smtplib.SMTP, and then one step for each wait on the network.           *)
(*                                                                         *)
(* The response of a completed request is held in last until it is         *)
(* delivered; the response of an order is kept with its request in reqs.   *)
(* A run carries one kind of traffic (workload): catalog requests,         *)
(* concurrent writes of the business profile, or orders with their         *)
(* dispatch while the profile is written by one admin at a time; it runs   *)
(* against a database that is fresh or was filled by earlier runs.         *)
(***************************************************************************)
EXTENDS Integers, Sequences, FiniteSets, Bags, TLC

\* ---------------------------------------------------------------- bounds
\* ObjectIds handed out in the product collection.
MaxProducts == 2
\* Order submissions received by this run.
MaxOrders == 1
\* Requests that are between two store operations at the same time.
MaxInFlight == 2

\* ----------------------------------------------------------- value sets
None == <<>>
Some(s) == <<s>>

\* not x, for an Optional[str] x (None and "" are falsy)
Falsy(x) == x = None \/ x = Some("")

\* Values of the X-Admin-Token header: absent, empty, the default secret, another.
Tokens == {None, Some(""), Some("changeme"), Some("letmein")}
\* Values of the ADMIN_TOKEN environment variable as read at line 28.
Secrets == {"changeme", ""}
\* Values of the SMTP_HOST environment variable.
SmtpHosts == {None, Some(""), Some("smtp.example.com")}
\* Values of the SMTP_PORT environment variable: unset, or not a number.
SmtpPorts == {None, Some("abc")}

P1 == [title |-> "Red Ink 1L", description |-> None, price |-> 100,
       category |-> "ink", in_stock |-> TRUE, image_url |-> None]
P2 == [title |-> "Floor Mop", description |-> Some("Cotton mop"), price |-> 0,
       category |-> "home", in_stock |-> FALSE, image_url |-> Some("/mop.png")]
Products == {P1, P2}

B1 == [name |-> "Laxmi Enterprise", email |-> "owner@laxmi.test", phone |-> Some("111"),
       address_line1 |-> None, address_line2 |-> None, city |-> None,
       state |-> None, postal_code |-> None, country |-> None]
B2 == [name |-> "Laxmi Enterprise", email |-> "sales@laxmi.test", phone |-> Some("222"),
       address_line1 |-> Some("1 Main Rd"), address_line2 |-> None, city |-> Some("Pune"),
       state |-> None, postal_code |-> None, country |-> Some("IN")]
Businesses == {B1, B2}

O1 == [customer_name |-> "A", customer_email |-> "a@x.com", customer_phone |-> None,
       color |-> "Red", quantity_liters |-> 5, message |-> None,
       delivery_address |-> None]
\* An order whose color holds a line feed: a valid InkOrder (color is any str).
O2 == [O1 EXCEPT !.color = "Red\nBlue"]
InkOrders == {O1, O2}

\* Category query values of GET /products.
Categories == {None, Some(""), Some("ink"), Some("home")}

\* Path strings given as {product_id}: the 24-hex form of an ObjectId, or not.
PathIds == [hex : BOOLEAN, n : 1..(MaxProducts + 1)]

VARIABLES
    ADMIN_TOKEN,   \* the configured secret (line 28), constant for the process
    SMTP_HOST,     \* os.getenv("SMTP_HOST"), constant for the process
    SMTP_PORT,     \* os.getenv("SMTP_PORT"), None when unset, constant for the process
    product,       \* db["product"]
    business,      \* db["business"]
    inkorder,      \* db["inkorder"]
    productIds,    \* number of ObjectIds handed out in db["product"]
    reqs,          \* the POST /orders/ink requests of this run, in order of arrival
    upserts,       \* bag of PUT /admin/business requests between lines 204 and 205
    last,          \* the response being delivered to its caller, route "none" when none is
    workload,      \* the traffic of this run: catalog, business profile, or order requests
    db             \* the database handle imported at line 10: None, or Some(db.name)

vars == <<ADMIN_TOKEN, SMTP_HOST, SMTP_PORT, product, business, inkorder, productIds,
          reqs, upserts, last, workload, db>>
store == <<product, business, inkorder, productIds>>
config == <<ADMIN_TOKEN, SMTP_HOST, SMTP_PORT, workload, db>>

\* ------------------------------------------------------- store adapter
\* A Mongo document: the model's fields plus the store-assigned _id.
Doc(id, data) == [k \in DOMAIN data \cup {"_id"} |-> IF k = "_id" THEN id ELSE data[k]]

\* d.pop("_id", None); Model(**d)   and   {k: v for k, v in d.items() if k != "_id"}
WithoutId(d) == [k \in DOMAIN d \ {"_id"} |-> d[k]]

\* str(ObjectId), ObjectId.is_valid(str), ObjectId(str)
ObjectIdStr(oid) == [hex |-> TRUE, n |-> oid]
ObjectIdIsValid(s) == s.hex
ObjectId(s) == s.n

\* create_document(collection, data): the collection with the new document appended.
create_document(coll, id, data) == Append(coll, Doc(id, data))

\* get_documents(collection, filter): the documents matching every filter field.
get_documents(coll, filt) ==
    SelectSeq(coll, LAMBDA d : \A k \in DOMAIN filt : d[k] = filt[k])

\* The positions of the documents with this _id.
Matching(coll, oid) == {i \in DOMAIN coll : coll[i]._id = oid}

\* Mutant of update_one: the description is left as it was.
update_one_keep_description(coll, oid, fields) ==
    IF {i \in DOMAIN coll : coll[i]._id = oid} = {}
    THEN [matched_count |-> 0, coll |-> coll]
    ELSE LET i == CHOOSE j \in DOMAIN coll : coll[j]._id = oid
         IN [matched_count |-> 1,
             coll |-> [coll EXCEPT ![i] =
                        [f \in DOMAIN coll[i] \cup DOMAIN fields |->
                            IF f \in DOMAIN fields \ {"description"}
                            THEN fields[f] ELSE coll[i][f]]]]

\* collection.update_one({"_id": oid}, {"$set": fields}): the first match is updated.
update_one(coll, oid, fields) ==
    IF Matching(coll, oid) = {} THEN [matched_count |-> 0, coll |-> coll]
    ELSE LET i == CHOOSE j \in Matching(coll, oid) : \A k \in Matching(coll, oid) : j <= k
         IN [matched_count |-> 1,
             coll |-> [coll EXCEPT ![i] =
                        [f \in DOMAIN coll[i] \cup DOMAIN fields |->
                            IF f \in DOMAIN fields THEN fields[f] ELSE coll[i][f]]]]

\* collection.delete_one({"_id": oid}): the first match is removed.
delete_one(coll, oid) ==
    IF Matching(coll, oid) = {} THEN [deleted_count |-> 0, coll |-> coll]
    ELSE LET i == CHOOSE j \in Matching(coll, oid) : \A k \in Matching(coll, oid) : j <= k
         IN [deleted_count |-> 1,
             coll |-> [j \in 1..(Len(coll) - 1) |-> IF j < i THEN coll[j] ELSE coll[j + 1]]]

\* ------------------------------------------------------------ responses
\* A completed request: its route, HTTP status, body, and the number of store
\* operations its handler performed.
Response(route, status, body, ops) ==
    [route |-> route, status |-> status, body |-> body, store_ops |-> ops]

\* raise HTTPException(status_code=401, detail="Unauthorized")
Unauthorized(route) == Response(route, 401, [detail |-> "Unauthorized"], 0)

\* What the caller gets when the handler raises something other than an
\* HTTPException: status 500 with the plain text "Internal Server Error" (no JSON
\* body). Without a database handle, _collection (line 26) raises a TypeError on
\* db[name], and create_document and get_documents raise a store error.
ServerError(route) == Response(route, 500, "Internal Server Error", 0)

\* verify_admin (lines 30-32), which no route uses: whether it raises 401.
verify_admin(x_admin_token) == Falsy(x_admin_token) \/ x_admin_token # Some(ADMIN_TOKEN)

\* Mutant of Denied: a request without the header is let through.
DeniedWhenPresent(x_admin_token) ==
    x_admin_token # None /\ x_admin_token # Some(ADMIN_TOKEN)

\* The inline check of every admin route: x_admin_token != ADMIN_TOKEN
Denied(x_admin_token) == x_admin_token # Some(ADMIN_TOKEN)

\* Requests that have done a store operation and have another one to do.
InFlight == Cardinality({i \in DOMAIN reqs : reqs[i].pc # "done"}) + BagCardinality(upserts)

\* -------------------------------------------------------------- Init
NoResponse == Response("none", 0, None, 0)

\* A handler step runs when no response is waiting to be delivered; a request of
\* traffic w arrives only in a run of that traffic.
Ready == last = NoResponse
Arrives(w) == Ready /\ workload = w

\* The runs in which requests for the business profile arrive: in a "profile" run
\* admins write the profile concurrently, in an "orders" run one admin at a time
\* writes it while orders are taken and dispatched.
ArrivesProfile == Ready /\ workload \in {"profile", "orders"}

\* The process starts against a fresh database, or against one that earlier runs
\* left with a product, a business profile and an order in it. The SMTP settings
\* are varied in the runs that dispatch email (no other request reads them), the
\* port is varied with the host, and the secret is varied in the
\* other runs (every admin route makes the same comparison with it).
Init ==
    /\ ADMIN_TOKEN \in Secrets
    /\ SMTP_HOST \in SmtpHosts
    /\ SMTP_PORT \in SmtpPorts
    /\ workload \in {"catalog", "profile", "orders"}
    /\ workload # "orders" => SMTP_HOST = None /\ SMTP_PORT = None
    /\ workload = "orders" => ADMIN_TOKEN = "changeme"
    /\ db \in {None, Some("storefront")}
    /\ \/ product = <<>> /\ business = <<>> /\ inkorder = <<>>
       \/ /\ db # None
          /\ product = <<Doc(1, P1)>> /\ business = <<Doc(1, B1)>> /\ inkorder = <<Doc(1, O1)>>
    /\ productIds = Len(product)
    /\ reqs = <<>>
    /\ upserts = EmptyBag
    /\ last = NoResponse

\* ---------------------------------------------------- public endpoints
\* GET /
root ==
    /\ Ready
    /\ last' = Response("GET /", 200, [message |-> "Laxmi Enterprise Backend running"], 0)
    /\ UNCHANGED <<config, store, reqs, upserts>>

\* s[:n]
Take(s, n) == SubSeq(s, 1, IF Len(s) < n THEN Len(s) ELSE n)

\* What db.list_collection_names() does: it returns names, or raises an error whose
\* text is a sequence of characters.
Probes ==
    {[ok |-> TRUE, names |-> <<>>, error |-> <<>>],
     [ok |-> TRUE, names |-> [i \in 1..11 |-> <<"collection", i>>], error |-> <<>>],
     [ok |-> FALSE, names |-> <<>>, error |-> [i \in 1..81 |-> "e"]]}

\* The body GET /test starts from (lines 42-49; the emoji of the texts are left out).
TestResponse ==
    [backend |-> "Running", database |-> <<"Not Available">>, database_url |-> None,
     database_name |-> None, connection_status |-> "Not Connected", collections |-> <<>>]

\* The body after lines 52-55, for a process that has a handle.
TestConnected(url_set) ==
    [TestResponse EXCEPT !.database = <<"Available">>,
                         !.database_url = Some(IF url_set THEN "Set" ELSE "Not Set"),
                         !.database_name = db,
                         !.connection_status = "Connected"]

\* Mutant of test_database: an error of the probe is not caught.
test_database_unguarded(url_set, probe) ==
    /\ Ready /\ workload = "catalog"
    /\ last' = IF db = None THEN Response("GET /test", 200, TestResponse, 0)
               ELSE IF probe.ok
               THEN Response("GET /test", 200,
                             [TestConnected(url_set) EXCEPT
                                 !.collections = Take(probe.names, 10),
                                 !.database = <<"Connected & Working">>], 1)
               ELSE Response("GET /test", 500, "Internal Server Error", 1)
    /\ UNCHANGED <<config, store, reqs, upserts>>

\* GET /test; url_set: whether DATABASE_URL is set, probe: what the store answers.
test_database(url_set, probe) ==
    /\ Ready /\ workload = "catalog"
    /\ last' = IF db = None THEN Response("GET /test", 200, TestResponse, 0)
               ELSE IF probe.ok
               THEN Response("GET /test", 200,
                             [TestConnected(url_set) EXCEPT
                                 !.collections = Take(probe.names, 10),
                                 !.database = <<"Connected & Working">>], 1)
               ELSE Response("GET /test", 200,
                             [TestConnected(url_set) EXCEPT
                                 !.database = <<"Connected but Error: ",
                                                Take(probe.error, 80)>>], 1)
    /\ UNCHANGED <<config, store, reqs, upserts>>

\* Mutant of list_products: the category is not used as a filter.
list_products_unfiltered(category) ==
    LET docs == get_documents(product, <<>>)
        out  == [i \in DOMAIN docs |-> WithoutId(docs[i])]
    IN /\ Arrives("catalog")
       /\ last' = IF db = None THEN ServerError("GET /products")
                  ELSE Response("GET /products", 200, out, 1)
       /\ UNCHANGED <<config, store, reqs, upserts>>

\* GET /products?category=
list_products(category) ==
    LET filt == IF Falsy(category) THEN <<>> ELSE [category |-> category[1]]
        docs == get_documents(product, filt)
        out  == [i \in DOMAIN docs |-> WithoutId(docs[i])]
    IN /\ Arrives("catalog")
       /\ last' = IF db = None THEN ServerError("GET /products")
                  ELSE Response("GET /products", 200, out, 1)
       /\ UNCHANGED <<config, store, reqs, upserts>>

\* The value GET /business returns for a business collection.
BusinessDetails(coll) ==
    LET docs == get_documents(coll, <<>>)
    IN IF docs = <<>> THEN None ELSE Some(WithoutId(docs[1]))

\* GET /business
get_business_details ==
    /\ ArrivesProfile
    /\ last' = IF db = None THEN ServerError("GET /business")
               ELSE Response("GET /business", 200, BusinessDetails(business), 1)
    /\ UNCHANGED <<config, store, reqs, upserts>>

\* ------------------------------------------------------- order intake
\* Mutant of create_ink_order_store: the request goes on without storing the order.
create_ink_order_store_unsaved(order) ==
    /\ Arrives("orders") /\ db # None
    /\ Len(reqs) < MaxOrders
    /\ InFlight < MaxInFlight
    /\ reqs' = Append(reqs, [pc |-> "lookup", _id |-> Len(inkorder) + 1,
                             order |-> order, business |-> None,
                             task |-> "none", response |-> None,
                             attempts |-> 0, smtp_calls |-> 0, outbox |-> <<>>])
    /\ UNCHANGED <<config, store, upserts, last>>

\* Mutant of create_ink_order_store: the order is stored twice.
create_ink_order_store_twice(order) ==
    /\ Arrives("orders") /\ db # None
    /\ Len(reqs) < MaxOrders
    /\ InFlight < MaxInFlight
    /\ inkorder' = create_document(create_document(inkorder, Len(inkorder) + 1, order),
                                   Len(inkorder) + 2, order)
    /\ reqs' = Append(reqs, [pc |-> "lookup", _id |-> Len(inkorder) + 1,
                             order |-> order, business |-> None,
                             task |-> "none", response |-> None,
                             attempts |-> 0, smtp_calls |-> 0, outbox |-> <<>>])
    /\ UNCHANGED <<config, product, business, productIds, upserts, last>>

\* POST /orders/ink, line 125: the order is stored. Without a database handle
\* create_document raises and the request ends there.
create_ink_order_store(order) ==
    IF db = None
    THEN /\ Arrives("orders")
         /\ last' = ServerError("POST /orders/ink")
         /\ UNCHANGED <<config, store, reqs, upserts>>
    ELSE /\ Arrives("orders")
         /\ Len(reqs) < MaxOrders
         /\ InFlight < MaxInFlight
         /\ inkorder' = create_document(inkorder, Len(inkorder) + 1, order)
         /\ reqs' = Append(reqs, [pc |-> "lookup", _id |-> Len(inkorder) + 1,
                                  order |-> order, business |-> None,
                                  task |-> "none", response |-> None,
                                  attempts |-> 0, smtp_calls |-> 0, outbox |-> <<>>])
         /\ UNCHANGED <<config, product, business, productIds, upserts, last>>

\* Mutant of OrderAfterLookup: without a business the request still answers "ok".
OrderAfterLookupAlwaysOk(r, business_docs, raised) ==
    IF business_docs = <<>>
    THEN [r EXCEPT !.pc = "return"]
    ELSE [r EXCEPT !.pc = "return",
                   !.business = Some(WithoutId(business_docs[1])),
                   !.task = IF raised THEN "none" ELSE "added"]

\* Mutant of OrderAfterLookup: an error raised by add_task ends the request in an
\* error response.
OrderAfterLookupRaises(r, business_docs, raised) ==
    IF business_docs = <<>>
    THEN [r EXCEPT !.pc = "done",
                   !.response = Some([status |-> "stored", email |-> "not_configured"])]
    ELSE IF raised
    THEN [r EXCEPT !.pc = "done",
                   !.business = Some(WithoutId(business_docs[1])),
                   !.response = Some([status |-> "error"])]
    ELSE [r EXCEPT !.pc = "return",
                   !.business = Some(WithoutId(business_docs[1])),
                   !.task = "added"]

\* The request after lines 127-137: the business lookup, and the scheduling of the
\* email when a business is configured (add_task raising is swallowed).
OrderAfterLookup(r, business_docs, raised) ==
    IF business_docs = <<>>
    THEN [r EXCEPT !.pc = "done",
                   !.response = Some([status |-> "stored", email |-> "not_configured"])]
    ELSE [r EXCEPT !.pc = "return",
                   !.business = Some(WithoutId(business_docs[1])),
                   !.task = IF raised THEN "none" ELSE "added"]

\* POST /orders/ink, lines 127-137.
create_ink_order_lookup(i) ==
    /\ Ready
    /\ reqs[i].pc = "lookup"
    /\ \E raised \in BOOLEAN :
         reqs' = [reqs EXCEPT ![i] =
                    OrderAfterLookup(reqs[i], get_documents(business, <<>>), raised)]
    /\ UNCHANGED <<config, store, upserts, last>>

\* The task of a request whose response was handed to the server: the tasks run
\* after the response is sent, and a task whose response could not be sent (the
\* client is gone) is never started.
TaskAfterResponse(task, sent) == IF task = "added" /\ ~sent THEN "dropped" ELSE task

\* POST /orders/ink, line 138, and the sending of the response.
create_ink_order_return(i) ==
    /\ Ready
    /\ reqs[i].pc = "return"
    /\ \E sent \in BOOLEAN :
         reqs' = [reqs EXCEPT ![i].pc = "done",
                              ![i].response = Some([status |-> "ok"]),
                              ![i].task = TaskAfterResponse(reqs[i].task, sent)]
    /\ UNCHANGED <<config, store, upserts, last>>

\* -------------------------------------------------------- email dispatch
\* int(s) of line 90 on the port strings of this model: the number it returns, or
\* None where it raises ValueError.
IntOf == ("587" :> Some(587)) @@ ("abc" :> None)

\* os.getenv("SMTP_PORT", "587")
PortString(smtp_port) == IF smtp_port = None THEN "587" ELSE smtp_port[1]

\* Whether msg["Subject"] = ... of line 99 takes a subject made with this color, on
\* the colors of this model: a header value with a line feed raises ValueError.
SubjectAccepts == ("Red" :> TRUE) @@ ("Red\nBlue" :> FALSE)

\* The waits of the task on the network at lines 115-120, in a process that leaves
\* SMTP_TLS, SMTP_USER and SMTP_PASSWORD unset (TLS is on by default, there is no
\* login), and for each wait what the other side can do and where that takes the
\* task. "refused" is an answer with an error code, "disconnected" a connection
\* that is closed or broken (smtplib closes it itself on the code 421).
\*   line 115  connect, greeting: an error is raised by the constructor, the
\*             with-block is not entered and no QUIT is sent.
\*   line 117  starttls(): EHLO (HELO when EHLO is refused), STARTTLS, the TLS
\*             handshake. Without the STARTTLS extension no STARTTLS is sent. A
\*             failed handshake leaves no usable socket.
\*   line 120  send_message(): EHLO again (HELO when refused), MAIL, RCPT, DATA,
\*             the body. The server takes the message at the end of the body and
\*             answers after that; a refused MAIL, RCPT or body is followed by RSET.
\*   exit      the with-block sends QUIT: after the block returned, a code other
\*             than 221 raises SMTPResponseException and a dropped connection is
\*             passed over; after an error in the block the task ends in an error
\*             whatever the answer. On a closed connection no QUIT is sent.
SmtpWaits ==
    [connect |-> [ok |-> "greeting", refused |-> "transport_error"],
     greeting |-> [ok |-> "ehlo", refused |-> "transport_error",
                   disconnected |-> "transport_error"],
     ehlo |-> [ok |-> "starttls", no_starttls |-> "quitting_after_error",
               refused |-> "helo", disconnected |-> "transport_error"],
     helo |-> [ok |-> "quitting_after_error", refused |-> "quitting_after_error",
               disconnected |-> "transport_error"],
     starttls |-> [ok |-> "handshake", refused |-> "quitting_after_error",
                   disconnected |-> "transport_error"],
     handshake |-> [ok |-> "ehlo_tls", failed |-> "transport_error"],
     ehlo_tls |-> [ok |-> "mail", refused |-> "helo_tls",
                   disconnected |-> "transport_error"],
     helo_tls |-> [ok |-> "mail", refused |-> "quitting_after_error",
                   disconnected |-> "transport_error"],
     mail |-> [ok |-> "rcpt", refused |-> "rset", disconnected |-> "transport_error"],
     rcpt |-> [ok |-> "data", refused |-> "rset", disconnected |-> "transport_error"],
     data |-> [ok |-> "body", refused |-> "quitting_after_error",
               disconnected |-> "transport_error"],
     body |-> [ok |-> "body_reply", refused |-> "rset",
               disconnected |-> "transport_error"],
     body_reply |-> [ok |-> "quitting", refused |-> "rset",
                     disconnected |-> "transport_error"],
     rset |-> [ok |-> "quitting_after_error", refused |-> "quitting_after_error",
               disconnected |-> "transport_error"],
     quitting |-> [ok |-> "sent", refused |-> "transport_error",
                   disconnected |-> "sent"],
     quitting_after_error |-> [ok |-> "transport_error", refused |-> "transport_error",
                               disconnected |-> "transport_error"]]

\* The waits of each call.
ConnectWaits == {"connect", "greeting"}
StarttlsWaits == {"ehlo", "helo", "starttls", "handshake"}
SendMessageWaits == {"ehlo_tls", "helo_tls", "mail", "rcpt", "data", "body",
                     "body_reply", "rset"}
QuitWaits == {"quitting", "quitting_after_error"}

\* x or '-'
OrDash(x) == IF Falsy(x) THEN "-" ELSE x[1]

\* The EmailMessage of lines 98-113: None when line 99 raises ValueError.
OrderMessage(order, biz) ==
    IF ~SubjectAccepts[order.color] THEN None
    ELSE Some([Subject |-> <<"New Ink Order: ", order.color, " - ",
                             order.quantity_liters, " L">>,
               To |-> biz.email,
               Customer |-> order.customer_name,
               Email |-> order.customer_email,
               Phone |-> OrDash(order.customer_phone),
               Color |-> order.color,
               Quantity |-> order.quantity_liters,
               DeliveryAddress |-> OrDash(order.delivery_address),
               Message |-> OrDash(order.message)])

\* Mutant of send_order_email: the connection is asked for before the
\* configuration is checked.
send_order_email_connect_first(order, biz, smtp_host, smtp_port) ==
    IF IntOf[PortString(smtp_port)] = None \/ Falsy(smtp_host) \/ biz.email = ""
    THEN [task |-> "config_error", smtp_calls |-> 1]
    ELSE IF OrderMessage(order, biz) = None
    THEN [task |-> "compose_error", smtp_calls |-> 1]
    ELSE [task |-> "connect", smtp_calls |-> 1]

\* send_order_email(order, business), lines 89-115, up to the call of smtplib.SMTP.
\* The task ends without asking for a connection in an error of the configuration
\* (the ValueError of line 90 for the port, else the RuntimeError of line 96 for the
\* host or the business email), or in the ValueError of line 99 for the subject;
\* or it asks for a connection and waits for the server.
send_order_email(order, biz, smtp_host, smtp_port) ==
    IF IntOf[PortString(smtp_port)] = None
    THEN [task |-> "config_error", smtp_calls |-> 0]
    ELSE IF Falsy(smtp_host) \/ biz.email = ""
    THEN [task |-> "config_error", smtp_calls |-> 0]
    ELSE IF OrderMessage(order, biz) = None
    THEN [task |-> "compose_error", smtp_calls |-> 0]
    ELSE [task |-> "connect", smtp_calls |-> 1]

\* The task and the messages with the server once the wait of request r has the
\* outcome answer: the server has the message msg from the end of the body on,
\* whatever it answers afterwards.
SmtpAnswer(r, msg, answer) ==
    [task |-> SmtpWaits[r.task][answer],
     outbox |-> IF r.task = "body" /\ answer = "ok" THEN r.outbox \o msg ELSE r.outbox]

\* Mutant of Runnable: the task runs as soon as it is added.
RunnableOnceAdded(r) == r.task = "added"

\* Mutant of Runnable: a task that met a transport error runs again.
RunnableWithRetry(r) == r.task \in {"added", "transport_error"} /\ r.pc = "done"

\* A task added with background_tasks.add_task runs once the response is sent.
Runnable(r) == r.task = "added" /\ r.pc = "done"

\* Mutant of run_background_task: the business is read again when the task runs.
run_background_task_rereads(i) ==
    /\ Ready
    /\ Runnable(reqs[i])
    /\ LET r == reqs[i]
           b == WithoutId(get_documents(business, <<>>)[1])
           e == send_order_email(r.order, b, SMTP_HOST, SMTP_PORT)
       IN reqs' = [reqs EXCEPT ![i].task = e.task,
                               ![i].business = Some(b),
                               ![i].attempts = r.attempts + 1,
                               ![i].smtp_calls = r.smtp_calls + e.smtp_calls]
    /\ UNCHANGED <<config, store, upserts, last>>

\* The background task of request i starts: send_order_email runs with the order
\* and the business of the request, up to the call of smtplib.SMTP.
run_background_task(i) ==
    /\ Ready
    /\ Runnable(reqs[i])
    /\ LET r == reqs[i]
           e == send_order_email(r.order, r.business[1], SMTP_HOST, SMTP_PORT)
       IN reqs' = [reqs EXCEPT ![i].task = e.task,
                               ![i].attempts = r.attempts + 1,
                               ![i].smtp_calls = r.smtp_calls + e.smtp_calls]
    /\ UNCHANGED <<config, store, upserts, last>>

\* A wait of task i, one of waits, has an outcome. The connection is made without
\* a timeout: at every wait the task stays where it is for as long as the other
\* side is silent.
send_order_email_wait(i, waits) ==
    /\ Ready
    /\ reqs[i].task \in waits
    /\ \E answer \in DOMAIN SmtpWaits[reqs[i].task] :
         LET r == reqs[i]
             e == SmtpAnswer(r, OrderMessage(r.order, r.business[1]), answer)
         IN reqs' = [reqs EXCEPT ![i].task = e.task, ![i].outbox = e.outbox]
    /\ UNCHANGED <<config, store, upserts, last>>

\* smtplib.SMTP(smtp_host, smtp_port) of task i, line 115.
send_order_email_connect(i) == send_order_email_wait(i, ConnectWaits)

\* server.starttls() of task i, line 117.
send_order_email_starttls(i) == send_order_email_wait(i, StarttlsWaits)

\* server.send_message(msg) of task i, line 120.
send_order_email_send_message(i) == send_order_email_wait(i, SendMessageWaits)

\* The QUIT of task i, sent on leaving the with-block.
send_order_email_quit(i) == send_order_email_wait(i, QuitWaits)

\* ------------------------------------------------------ admin endpoints
\* GET /admin/products
admin_list_products(x_admin_token) ==
    /\ Arrives("catalog")
    /\ last' = IF Denied(x_admin_token) THEN Unauthorized("GET /admin/products")
               ELSE IF db = None THEN ServerError("GET /admin/products")
               ELSE LET docs == get_documents(product, <<>>)
                    IN Response("GET /admin/products", 200,
                                [i \in DOMAIN docs |->
                                    [k \in (DOMAIN docs[i] \ {"_id"}) \cup {"id"} |->
                                        IF k = "id" THEN ObjectIdStr(docs[i]._id)
                                        ELSE docs[i][k]]], 1)
    /\ UNCHANGED <<config, store, reqs, upserts>>

\* Mutant of admin_create_product: the document is written to the business collection.
admin_create_product_into_business(p, x_admin_token) ==
    /\ Arrives("catalog") /\ db # None
    /\ IF Denied(x_admin_token)
       THEN /\ last' = Unauthorized("POST /admin/products")
            /\ UNCHANGED <<business, productIds>>
       ELSE /\ productIds < MaxProducts
            /\ business' = create_document(business, Len(business) + 1, p)
            /\ productIds' = productIds + 1
            /\ last' = Response("POST /admin/products", 200,
                                [id |-> ObjectIdStr(productIds + 1)], 1)
    /\ UNCHANGED <<config, product, inkorder, reqs, upserts>>

\* POST /admin/products
admin_create_product(p, x_admin_token) ==
    /\ Arrives("catalog")
    /\ IF Denied(x_admin_token)
       THEN /\ last' = Unauthorized("POST /admin/products")
            /\ UNCHANGED <<product, productIds>>
       ELSE IF db = None
       THEN /\ last' = ServerError("POST /admin/products")
            /\ UNCHANGED <<product, productIds>>
       ELSE /\ productIds < MaxProducts
            /\ product' = create_document(product, productIds + 1, p)
            /\ productIds' = productIds + 1
            /\ last' = Response("POST /admin/products", 200,
                                [id |-> ObjectIdStr(productIds + 1)], 1)
    /\ UNCHANGED <<config, business, inkorder, reqs, upserts>>

\* PUT /admin/products/{product_id}
admin_update_product(product_id, p, x_admin_token) ==
    LET route == "PUT /admin/products/{product_id}"
        res == update_one(product, ObjectId(product_id), p)
    IN /\ Arrives("catalog")
       /\ IF Denied(x_admin_token)
          THEN last' = Unauthorized(route) /\ UNCHANGED product
          ELSE IF ~ObjectIdIsValid(product_id)
          THEN last' = Response(route, 400, [detail |-> "Invalid ID"], 0) /\ UNCHANGED product
          ELSE IF db = None
          THEN last' = ServerError(route) /\ UNCHANGED product
          ELSE /\ product' = res.coll
               /\ last' = IF res.matched_count = 0
                          THEN Response(route, 404, [detail |-> "Not found"], 1)
                          ELSE Response(route, 200, [updated |-> TRUE], 1)
       /\ UNCHANGED <<config, business, inkorder, productIds, reqs, upserts>>

\* Mutant of admin_delete_product: the identifier is not validated.
admin_delete_product_unchecked(product_id, x_admin_token) ==
    LET route == "DELETE /admin/products/{product_id}"
        res == delete_one(product, ObjectId(product_id))
    IN /\ Arrives("catalog") /\ db # None
       /\ IF Denied(x_admin_token)
          THEN last' = Unauthorized(route) /\ UNCHANGED product
          ELSE /\ product' = res.coll
               /\ last' = IF res.deleted_count = 0
                          THEN Response(route, 404, [detail |-> "Not found"], 1)
                          ELSE Response(route, 200, [deleted |-> TRUE], 1)
       /\ UNCHANGED <<config, business, inkorder, productIds, reqs, upserts>>

\* DELETE /admin/products/{product_id}
admin_delete_product(product_id, x_admin_token) ==
    LET route == "DELETE /admin/products/{product_id}"
        res == delete_one(product, ObjectId(product_id))
    IN /\ Arrives("catalog")
       /\ IF Denied(x_admin_token)
          THEN last' = Unauthorized(route) /\ UNCHANGED product
          ELSE IF ~ObjectIdIsValid(product_id)
          THEN last' = Response(route, 400, [detail |-> "Invalid ID"], 0) /\ UNCHANGED product
          ELSE IF db = None
          THEN last' = ServerError(route) /\ UNCHANGED product
          ELSE /\ product' = res.coll
               /\ last' = IF res.deleted_count = 0
                          THEN Response(route, 404, [detail |-> "Not found"], 1)
                          ELSE Response(route, 200, [deleted |-> TRUE], 1)
       /\ UNCHANGED <<config, business, inkorder, productIds, reqs, upserts>>

\* GET /admin/business
admin_get_business(x_admin_token) ==
    /\ ArrivesProfile
    /\ last' = IF Denied(x_admin_token) THEN Unauthorized("GET /admin/business")
               ELSE IF db = None THEN ServerError("GET /admin/business")
               ELSE LET docs == get_documents(business, <<>>)
                    IN Response("GET /admin/business", 200,
                                IF docs = <<>> THEN None
                                ELSE Some([k \in (DOMAIN docs[1] \ {"_id"}) \cup {"id"} |->
                                             IF k = "id" THEN ObjectIdStr(docs[1]._id)
                                             ELSE docs[1][k]]), 1)
    /\ UNCHANGED <<config, store, reqs, upserts>>

\* PUT /admin/business, lines 202-204: the check and the read of the collection.
\* The request keeps the payload and what it read of docs (empty, or docs[0]["_id"]).
admin_upsert_business_read(biz, x_admin_token) ==
    IF Denied(x_admin_token)
    THEN /\ ArrivesProfile
         /\ last' = Unauthorized("PUT /admin/business")
         /\ UNCHANGED <<config, store, reqs, upserts>>
    ELSE IF db = None
    THEN /\ ArrivesProfile
         /\ last' = ServerError("PUT /admin/business")
         /\ UNCHANGED <<config, store, reqs, upserts>>
    ELSE /\ ArrivesProfile
         /\ workload = "orders" => upserts = EmptyBag
         /\ InFlight < MaxInFlight
         /\ LET docs == get_documents(business, <<>>)
            IN upserts' = upserts (+) SetToBag({[business |-> biz,
                             docs |-> IF docs = <<>> THEN <<>> ELSE <<docs[1]._id>>]})
         /\ UNCHANGED <<config, store, reqs, last>>

\* Mutant of UpsertWrite: the payload is always inserted.
UpsertWriteInsert(coll, u) == create_document(coll, Len(coll) + 1, u.business)

\* The business collection after lines 205-210 of a request that read docs.
UpsertWrite(coll, u) ==
    IF u.docs = <<>>
    THEN create_document(coll, Len(coll) + 1, u.business)
    ELSE update_one(coll, u.docs[1], u.business).coll

\* PUT /admin/business, lines 205-210: create when docs was empty, else update docs[0].
admin_upsert_business_write(u) ==
    /\ Ready
    /\ BagIn(u, upserts)
    /\ upserts' = upserts (-) SetToBag({u})
    /\ business' = UpsertWrite(business, u)
    /\ last' = Response("PUT /admin/business", 200,
                        IF u.docs = <<>> THEN [created |-> TRUE] ELSE [updated |-> TRUE], 2)
    /\ UNCHANGED <<config, product, inkorder, productIds, reqs>>

\* ---------------------------------------------------------------- Next
\* The response is delivered to its caller.
deliver ==
    /\ last # NoResponse
    /\ last' = NoResponse
    /\ UNCHANGED <<config, store, reqs, upserts>>

Next ==
    \/ root
    \/ \E url_set \in BOOLEAN, probe \in Probes : test_database(url_set, probe)
    \/ \E c \in Categories : list_products(c)
    \/ get_business_details
    \/ \E o \in InkOrders : create_ink_order_store(o)
    \/ \E i \in DOMAIN reqs : create_ink_order_lookup(i)
    \/ \E i \in DOMAIN reqs : create_ink_order_return(i)
    \/ \E i \in DOMAIN reqs : run_background_task(i)
    \/ \E i \in DOMAIN reqs : send_order_email_connect(i)
    \/ \E i \in DOMAIN reqs : send_order_email_starttls(i)
    \/ \E i \in DOMAIN reqs : send_order_email_send_message(i)
    \/ \E i \in DOMAIN reqs : send_order_email_quit(i)
    \/ \E t \in Tokens : admin_list_products(t)
    \/ \E t \in Tokens, p \in Products : admin_create_product(p, t)
    \/ \E t \in Tokens, id \in PathIds, p \in Products : admin_update_product(id, p, t)
    \/ \E t \in Tokens, id \in PathIds : admin_delete_product(id, t)
    \/ \E t \in Tokens : admin_get_business(t)
    \/ \E t \in Tokens, b \in Businesses : admin_upsert_business_read(b, t)
    \/ \E u \in BagToSet(upserts) : admin_upsert_business_write(u)
    \/ deliver

Spec == Init /\ [][Next]_vars

\* Requests are handled one after another: at most one request is between two
\* store operations.
NextSeq == Next /\ InFlight' <= 1

SpecSeq == Init /\ [][NextSeq]_vars

\* ------------------------------------------------------------ properties
StoredNotConfigured == Some([status |-> "stored", email |-> "not_configured"])
Accepted == Some([status |-> "ok"])

\* The order a request stored is in the order log.
InLog(r) == \E j \in DOMAIN inkorder : inkorder[j] = Doc(r._id, r.order)

\* An admin request carrying token t is handled.
AdminRequest(t) ==
    \/ admin_list_products(t)
    \/ \E p \in Products : admin_create_product(p, t)
    \/ \E id \in PathIds, p \in Products : admin_update_product(id, p, t)
    \/ \E id \in PathIds : admin_delete_product(id, t)
    \/ admin_get_business(t)
    \/ \E b \in Businesses : admin_upsert_business_read(b, t)

\* C1: the business collection holds at most one document in every reachable
\* state, whatever the interleaving of authorized upsertBusiness requests.
C1_SingleBusinessDocument == Len(business) <= 1

\* C2: the order of every submitOrder request is in the order log from the moment
\* the request goes on to the business lookup: while it looks the business up,
\* while the dispatch is scheduled, when the response is produced and after, for
\* every business-profile state and SMTP configuration.
C2_OrderPersistedFirst == \A i \in DOMAIN reqs : InLog(reqs[i])

C2_Witness ==
    \E i \in DOMAIN reqs :
        /\ reqs[i].response = Accepted
        /\ reqs[i].task = "transport_error"
        /\ InLog(reqs[i])

\* C3: an admin request without a token, or with a token that is not the configured
\* secret, is answered 401 before any store operation and leaves the product,
\* business and order collections as they were, on every admin route.
C3_UnauthorizedNoEffect ==
    [][\A t \in Tokens :
          (t # Some(ADMIN_TOKEN) /\ AdminRequest(t)) =>
              /\ last'.status = 401
              /\ last'.store_ops = 0
              /\ UNCHANGED <<product, business, inkorder>>]_vars

C3_Witness ==
    /\ last.status = 401
    /\ last.route = "DELETE /admin/products/{product_id}"
    /\ product # <<>>

\* C4: when upsertBusiness requests run one after another, each leaves exactly one
\* business document whose fields are the request's payload and which getBusiness
\* returns; the request that finds no profile reports created, every other one
\* reports updated and keeps the document's identifier.
C4_SequentialUpsert ==
    [][\A u \in BagToSet(upserts) :
          admin_upsert_business_write(u) =>
              /\ Len(business') = 1
              /\ WithoutId(business'[1]) = u.business
              /\ BusinessDetails(business') = Some(u.business)
              /\ IF business = <<>>
                 THEN last'.body = [created |-> TRUE]
                 ELSE /\ last'.body = [updated |-> TRUE]
                      /\ business'[1]._id = business[1]._id]_vars

C4_Witness ==
    /\ product = <<>>
    /\ last.route = "PUT /admin/business"
    /\ last.status = 200
    /\ last.body = [updated |-> TRUE]
    /\ Len(business) = 1
    /\ WithoutId(business[1]) = B2

\* C5: a submitOrder request that finds no business profile answers "stored,
\* notification not configured", and no dispatch is ever scheduled or run for it.
C5_NoBusinessNoDispatch ==
    /\ [](\A i \in DOMAIN reqs :
            reqs[i].response = StoredNotConfigured =>
                /\ reqs[i].task = "none"
                /\ reqs[i].attempts = 0
                /\ reqs[i].smtp_calls = 0
                /\ reqs[i].outbox = <<>>)
    /\ [][\A i \in DOMAIN reqs :
            (create_ink_order_lookup(i) /\ business = <<>>) =>
                /\ reqs'[i].response = StoredNotConfigured
                /\ reqs'[i].task = "none"]_vars

C5_Witness ==
    \E i \in DOMAIN reqs :
        /\ reqs[i].response = StoredNotConfigured
        /\ business # <<>>
        /\ reqs[i].attempts = 0

\* C6: with a business profile present the dispatch of an order runs only after the
\* order's response was returned, that response is the accepted one, and the
\* dispatch, however it ends, changes neither the response nor the order log.
C6_DispatchAfterResponse ==
    /\ [](\A i \in DOMAIN reqs :
            /\ reqs[i].attempts > 0 => reqs[i].response = Accepted
            /\ (reqs[i].business # None /\ reqs[i].pc = "done") =>
                   reqs[i].response = Accepted)
    /\ [][\A i \in DOMAIN reqs :
            (\/ run_background_task(i)
             \/ send_order_email_connect(i)
             \/ send_order_email_starttls(i)
             \/ send_order_email_send_message(i)
             \/ send_order_email_quit(i)) =>
                /\ reqs[i].response = Accepted
                /\ reqs'[i].response = reqs[i].response
                /\ inkorder' = inkorder
                /\ last' = last]_vars

C6_Witness ==
    \E i \in DOMAIN reqs :
        /\ reqs[i].task = "config_error"
        /\ reqs[i].response = Accepted

\* C7: with the valid token, updateProduct and deleteProduct answer 400 to a
\* malformed identifier without any store operation, and, when the store is asked
\* (the process has a database handle), 404 to a well-formed identifier of no
\* product; the product collection is unchanged in both cases.
C7_InvalidIdAndNotFound ==
    [][\A id \in PathIds :
          ((\E p \in Products : admin_update_product(id, p, Some(ADMIN_TOKEN)))
             \/ admin_delete_product(id, Some(ADMIN_TOKEN))) =>
              /\ ~id.hex => /\ last'.status = 400
                            /\ last'.store_ops = 0
                            /\ product' = product
              /\ (id.hex /\ db # None /\ \A j \in DOMAIN product : product[j]._id # id.n) =>
                     /\ last'.status = 404
                     /\ product' = product]_vars

C7_Witness ==
    /\ last.status = 404
    /\ last.route = "PUT /admin/products/{product_id}"
    /\ product # <<>>

\* C8: the order log is append-only: every step keeps the stored orders as they
\* are, and a step adds at most one order, which is what an order submission
\* whose persist step succeeds (the process has a database handle) does.
C8_OrderLogAppendOnly ==
    [][/\ Len(inkorder') >= Len(inkorder)
       /\ \A j \in DOMAIN inkorder : inkorder'[j] = inkorder[j]
       /\ (db # None /\ \E o \in InkOrders : create_ink_order_store(o)) <=>
              Len(inkorder') = Len(inkorder) + 1
       /\ Len(inkorder') <= Len(inkorder) + 1]_vars

C8_Witness ==
    /\ Len(inkorder) = 2
    /\ Len(reqs) = 1
    /\ reqs[1].task = "sent"

\* C9: for every order at most one dispatch is run and at most one message is
\* sent; a dispatch that ended, in an error or not, is not run again, and neither
\* is one that was never started.
C9_AtMostOnce ==
    /\ [](\A i \in DOMAIN reqs :
            /\ reqs[i].attempts <= 1
            /\ reqs[i].smtp_calls <= 1
            /\ Len(reqs[i].outbox) <= 1)
    /\ [][\A i \in DOMAIN reqs :
            reqs[i].task \in {"config_error", "compose_error", "transport_error",
                               "sent", "dropped"} =>
                reqs'[i] = reqs[i]]_vars

C9_Witness ==
    \E i \in DOMAIN reqs :
        /\ reqs[i].task = "transport_error"
        /\ reqs[i].attempts = 1
        /\ Len(reqs[i].outbox) = 1

\* C10: a dispatch that runs with the SMTP host unset, or for a business without an
\* email address, ends in the configuration error without asking for a connection
\* and without sending a message, and changes no response.
C10_ConfigErrorFailsFast ==
    [][\A i \in DOMAIN reqs :
          (/\ run_background_task(i)
           /\ \/ SMTP_HOST \in {None, Some("")}
              \/ reqs[i].business[1].email = "") =>
              /\ reqs'[i].task = "config_error"
              /\ reqs'[i].smtp_calls = 0
              /\ reqs'[i].outbox = <<>>
              /\ reqs'[i].response = reqs[i].response
              /\ last' = last]_vars

C10_Witness ==
    \E i \in DOMAIN reqs :
        /\ reqs[i].task = "config_error"
        /\ SMTP_HOST = None
        /\ SMTP_PORT = Some("abc")
        /\ reqs[i].order = O2
        /\ reqs[i].smtp_calls = 0


\* C11: when add_task raises for an order that is stored and has a business
\* profile, the error is swallowed: the request goes on to answer "ok", no task
\* exists for it, and the order stays in the log.
C11_SchedulingErrorSwallowed ==
    /\ [](\A i \in DOMAIN reqs :
            (reqs[i].business # None /\ reqs[i].task = "none") =>
                /\ InLog(reqs[i])
                /\ reqs[i].attempts = 0
                /\ reqs[i].pc = "return" \/ reqs[i].response = Accepted)
    /\ [][\A i \in DOMAIN reqs :
            (create_ink_order_return(i) /\ reqs[i].task = "none") =>
                /\ reqs'[i].response = Accepted
                /\ inkorder' = inkorder]_vars

C11_Witness ==
    \E i \in DOMAIN reqs :
        /\ reqs[i].business # None
        /\ reqs[i].task = "none"
        /\ reqs[i].response = Accepted
        /\ InLog(reqs[i])


\* The mutable fields of a product.
ProductFields == {"title", "description", "price", "category", "in_stock", "image_url"}

\* C12: after a successful updateProduct(id, P) the product with that identifier
\* has every mutable field equal to P's, at the same position and with the same
\* identifier; every other product and the number of products are unchanged.
C12_UpdateReplacesFields ==
    [][\A id \in PathIds, p \in Products :
          (admin_update_product(id, p, Some(ADMIN_TOKEN)) /\ last'.status = 200) =>
              /\ Len(product') = Len(product)
              /\ \E j \in DOMAIN product :
                    /\ product[j]._id = id.n
                    /\ product'[j]._id = id.n
                    /\ \A f \in ProductFields : product'[j][f] = p[f]
                    /\ \A k \in DOMAIN product \ {j} : product'[k] = product[k]]_vars

C12_Witness ==
    /\ last.route = "PUT /admin/products/{product_id}"
    /\ last.status = 200
    /\ Len(product) = 2
    /\ WithoutId(product[1]) = P2
    /\ WithoutId(product[2]) = P2


\* The list holds exactly the stored products at the positions idx, without _id.
ExactlyProducts(list, idx) ==
    /\ Len(list) = Cardinality(idx)
    /\ \A j \in idx : \E k \in DOMAIN list : list[k] = WithoutId(product[j])
    /\ \A k \in DOMAIN list : \E j \in idx : list[k] = WithoutId(product[j])

\* The positions of the stored products of category c.
OfCategory(c) == {j \in DOMAIN product : product[j].category = c}

\* C13 as stated: listProducts with a category filter c returns exactly the stored
\* products whose category equals c, for every string c, and without a filter it
\* returns every stored product (the store answering the query).
C13_FilterAnyString ==
    [][\A c \in Categories :
          (list_products(c) /\ db # None) =>
              IF c = None
              THEN ExactlyProducts(last'.body, DOMAIN product)
              ELSE ExactlyProducts(last'.body, OfCategory(c[1]))]_vars

\* C13 amended: listProducts with a non-empty category c returns exactly the
\* stored products whose category equals c; without a category, or with the empty
\* string as category, it returns every stored product (the store answering the
\* query).
C13_FilterNonEmpty ==
    [][\A c \in Categories :
          (list_products(c) /\ db # None) =>
              IF c = None \/ c = Some("")
              THEN ExactlyProducts(last'.body, DOMAIN product)
              ELSE ExactlyProducts(last'.body, OfCategory(c[1]))]_vars

C13_Witness ==
    /\ last.route = "GET /products"
    /\ last.status = 200
    /\ last.body = <<P1>>
    /\ Len(product) = 2
    /\ product[1].category = "home"


\* C14: the diagnostics read answers 200 in every store condition and changes no
\* collection: without a handle it reports the store as not available, with a
\* handle and a failing probe the failure shows only in the database text (with at
\* most 80 characters of the error), with a working probe it lists at most 10
\* collections.
C14_DiagnosticsNeverRaises ==
    [][\A url_set \in BOOLEAN, probe \in Probes :
          test_database(url_set, probe) =>
              /\ last'.status = 200
              /\ last'.body.backend = "Running"
              /\ UNCHANGED store
              /\ db = None =>
                    /\ last'.body.database = <<"Not Available">>
                    /\ last'.body.connection_status = "Not Connected"
              /\ (db # None /\ ~probe.ok) =>
                    /\ last'.body.database[1] = "Connected but Error: "
                    /\ Len(last'.body.database[2]) <= 80
                    /\ last'.body.connection_status = "Connected"
                    /\ last'.body.collections = <<>>
              /\ (db # None /\ probe.ok) =>
                    /\ last'.body.database = <<"Connected & Working">>
                    /\ Len(last'.body.collections) <= 10]_vars

C14_Witness ==
    /\ last.route = "GET /test"
    /\ last.status = 200
    /\ last.body.database[1] = "Connected but Error: "
    /\ inkorder # <<>>


\* The scheduling the server gives: a response that is ready is delivered, a
\* request that looked up the business returns, and a task whose response was
\* sent is started by the worker pool (a task whose response could not be sent
\* is not runnable, and nothing is asked for it). The answers of the SMTP server
\* are not the server's to schedule, and the session has no timeout.
Fairness ==
    /\ WF_vars(deliver)
    /\ \A i \in 1..MaxOrders :
          /\ SF_vars(i \in DOMAIN reqs /\ create_ink_order_return(i))
          /\ SF_vars(i \in DOMAIN reqs /\ run_background_task(i))

SpecFair == Init /\ [][Next]_vars /\ Fairness

\* The outcomes the specification names for a dispatch.
Terminal == {"sent", "config_error", "transport_error"}

\* C15: under fair scheduling every dispatch that was scheduled eventually reaches
\* a terminal outcome: sent, configuration error or transport error.
C15_DispatchTerminates ==
    \A i \in 1..MaxOrders :
        (i \in DOMAIN reqs /\ reqs[i].task = "added")
            ~> (i \in DOMAIN reqs /\ reqs[i].task \in Terminal)


ReadRoutes ==
    {"GET /", "GET /test", "GET /products", "GET /business",
     "GET /admin/products", "GET /admin/business"}
ProductWriteRoutes ==
    {"POST /admin/products", "PUT /admin/products/{product_id}",
     "DELETE /admin/products/{product_id}"}

\* C16: each operation changes only its own collection. A step that answers a
\* read changes no collection; a step of an order request changes at most the
\* order log; a step that answers a product write changes at most the product
\* collection; a step of a business upsert changes at most the business
\* collection. The order log changes only by the store step of an order, the
\* business collection only by the write of an upsert, and the product collection
\* only by a create, update or delete that carries the configured token.
C16_FrameEffects ==
    [][/\ (last = NoResponse /\ last'.route \in ReadRoutes) => UNCHANGED store
       /\ reqs' # reqs => UNCHANGED <<product, productIds, business>>
       /\ (last = NoResponse /\ last'.route \in ProductWriteRoutes) =>
              UNCHANGED <<business, inkorder>>
       /\ (upserts' # upserts \/ (last = NoResponse /\ last'.route = "PUT /admin/business")) =>
              UNCHANGED <<product, productIds, inkorder>>
       /\ inkorder' # inkorder => \E o \in InkOrders : create_ink_order_store(o)
       /\ business' # business =>
              \E u \in BagToSet(upserts) : admin_upsert_business_write(u)
       /\ (product' # product \/ productIds' # productIds) =>
              \E id \in PathIds, p \in Products :
                  \/ admin_create_product(p, Some(ADMIN_TOKEN))
                  \/ admin_update_product(id, p, Some(ADMIN_TOKEN))
                  \/ admin_delete_product(id, Some(ADMIN_TOKEN))]_vars

C16_Witness ==
    /\ last.route = "DELETE /admin/products/{product_id}"
    /\ last.status = 200
    /\ Len(product) = 1
    /\ business # <<>>
    /\ inkorder # <<>>


\* C17: the notification of an order is addressed to the business email read
\* while the order's request was handled: every message a dispatch sends has as
\* recipient the email of the business the request looked up, whatever the
\* business collection holds when the dispatch runs.
C17_RecipientSnapshot ==
    /\ [](\A i \in DOMAIN reqs : \A k \in DOMAIN reqs[i].outbox :
              reqs[i].outbox[k].To = reqs[i].business[1].email)
    /\ [][\A i \in DOMAIN reqs :
             /\ reqs[i].business # None => reqs'[i].business = reqs[i].business
             /\ (send_order_email_send_message(i) /\ reqs'[i].outbox # reqs[i].outbox) =>
                    reqs'[i].outbox[Len(reqs'[i].outbox)].To = reqs[i].business[1].email]_vars

C17_Witness ==
    \E i \in DOMAIN reqs :
        /\ reqs[i].task = "sent"
        /\ reqs[i].response = Accepted
        /\ business # <<>>
        /\ reqs[i].outbox[1].To # business[1].email


\* C18: for every presented token and every configured secret, the inline check of
\* an admin route denies the request exactly when verify_admin would.
C18_InlineMatchesVerifyAdmin ==
    [][\A t \in Tokens :
          (admin_list_products(t) \/ admin_get_business(t)) =>
              (last'.status = 401 <=> verify_admin(t))]_vars

====
